---------------------------- MODULE Spec2Model ----------------------------
(***************************************************************************)
(* A model of blender/armutils.py, the helper module of the Armory export  *)
(* add-on: the colour and resolution arithmetic, the path helpers, the     *)
(* write_arm serializer, the directory scan and the chromium_found flag.   *)
(*                                                                         *)
(* Strings are sequences of one-character strings.  Python floats are      *)
(* IEEE-754 doubles, modelled with their 53-bit significand as a bit       *)
(* sequence; Python integers are unbounded, and the packed colour (which   *)
(* exceeds 31 bits) is a little-endian sequence of base-256 limbs.         *)
(***************************************************************************)
EXTENDS Integers, Sequences, FiniteSets, TLC

VARIABLES
    called,                             \* the helpers called so far
    val, hex_out, int_out,              \* colour helpers: argument and results
    render, res_out,                    \* bpy.data.scenes[i].render and the result
    s_in, s_out,                        \* safe_assetpath: argument and result
    output, arm_minimize,               \* write_arm: the mapping, and the world's flag
    files, last_write,                  \* the files, and the last write_arm call
    chromium_found,                     \* the module's global flag
    barmory_seen,                       \* history: a register() call found 'barmory'
    platform_system,                    \* platform.system()
    binary_path,                        \* bpy.app.binary_path
    sdk_bundled, sdk_path,              \* the add-on preferences
    filepath,                           \* bpy.data.filepath
    dirs, cwd,                          \* the directories, and the process's cwd
    bundled_scripts_list, scripts_list, \* the lists of bpy.data.worlds['Arm']
    last_call                           \* the last helper called and what it returned

colorVars == <<val, hex_out, int_out>>
resVars   == <<render, res_out>>
pathVars  == <<s_in, s_out>>
armVars   == <<output, arm_minimize, files, last_write>>
hostEnv   == <<platform_system, binary_path, sdk_bundled, sdk_path, filepath, dirs>>
listVars  == <<bundled_scripts_list, scripts_list>>
hostVars  == <<chromium_found, barmory_seen, hostEnv, cwd, listVars, last_call>>
vars == <<called, colorVars, resVars, pathVars, armVars, hostVars>>

(***************************************************************************)
(* Bounds of the model.                                                    *)
(***************************************************************************)
ChanDen == 4          \* colour channels are the doubles n / ChanDen, n in 0..ChanDen
MaxPct == 100         \* resolution_percentage ranges over 0..MaxPct
MaxLen == 4           \* longest string handed to safe_assetpath
MaxIntKey == 1        \* integer keys of a mapping range over 1..MaxIntKey

(***************************************************************************)
(* Python integers are unbounded: a non-negative one too wide for 31 bits  *)
(* is a little-endian sequence of base-256 limbs with no leading zero      *)
(* limb.                                                                   *)
(***************************************************************************)
LimbBits == 8
LimbBase == 2 ^ LimbBits

RECURSIVE Pow2(_)
Pow2(k) == IF k = 0 THEN 1 ELSE 2 * Pow2(k - 1)

RECURSIVE BitLength(_)
BitLength(n) == IF n = 0 THEN 0 ELSE 1 + BitLength(n \div 2)

RECURSIVE BigOfInt(_)
BigOfInt(n) == IF n = 0 THEN <<>> ELSE <<n % LimbBase>> \o BigOfInt(n \div LimbBase)

RECURSIVE IntOfBig(_)
IntOfBig(b) == IF b = <<>> THEN 0 ELSE Head(b) + LimbBase * IntOfBig(Tail(b))

\* drop leading (most significant) zero limbs
RECURSIVE BigTrim(_)
BigTrim(b) ==
    IF b # <<>> /\ b[Len(b)] = 0 THEN BigTrim(SubSeq(b, 1, Len(b) - 1)) ELSE b

\* b * x + carry for a small x
RECURSIVE BigMulSmall(_, _, _)
BigMulSmall(b, x, carry) ==
    IF b = <<>> THEN BigOfInt(carry)
    ELSE LET t == Head(b) * x + carry
         IN  <<t % LimbBase>> \o BigMulSmall(Tail(b), x, t \div LimbBase)

\* n << k
RECURSIVE ShiftLeft(_, _)
ShiftLeft(b, k) ==
    IF b = <<>> THEN <<>>
    ELSE IF k >= LimbBits THEN <<0>> \o ShiftLeft(b, k - LimbBits)
    ELSE BigMulSmall(b, Pow2(k), 0)

\* n >> k
RECURSIVE ShiftRight(_, _)
ShiftRight(b, k) ==
    IF b = <<>> THEN <<>>
    ELSE IF k >= LimbBits THEN ShiftRight(Tail(b), k - LimbBits)
    ELSE BigTrim([i \in 1..Len(b) |->
                    (b[i] \div Pow2(k)) +
                    (IF i < Len(b) THEN (b[i + 1] % Pow2(k)) * Pow2(LimbBits - k)
                                   ELSE 0)])

RECURSIVE BigAdd(_, _, _)
BigAdd(a, b, carry) ==
    IF a = <<>> /\ b = <<>> THEN BigOfInt(carry)
    ELSE LET x == IF a = <<>> THEN 0 ELSE Head(a)
             y == IF b = <<>> THEN 0 ELSE Head(b)
             t == x + y + carry
         IN  <<t % LimbBase>> \o
             BigAdd(IF a = <<>> THEN a ELSE Tail(a),
                    IF b = <<>> THEN b ELSE Tail(b), t \div LimbBase)

\* quotient and remainder of b by a small d, from the top limb down
RECURSIVE BigDivSmall(_, _, _, _)
BigDivSmall(b, d, i, rem) ==
    IF i = 0 THEN [quot |-> <<>>, rem |-> rem]
    ELSE LET cur  == rem * LimbBase + b[i]
             rest == BigDivSmall(b, d, i - 1, cur % d)
         IN  [quot |-> Append(rest.quot, cur \div d), rem |-> rest.rem]

BigBitLength(b) ==
    IF b = <<>> THEN 0 ELSE LimbBits * (Len(b) - 1) + BitLength(b[Len(b)])

\* n mod 2^k for k <= 2 * LimbBits
LowBits(b, k) ==
    ((IF Len(b) >= 1 THEN b[1] ELSE 0) +
     (IF Len(b) >= 2 THEN b[2] * LimbBase ELSE 0)) % Pow2(k)

\* (n >> 8*i) & 0xFF
ByteAt(b, i) == IF i + 1 <= Len(b) THEN b[i + 1] ELSE 0

(***************************************************************************)
(* IEEE-754 double arithmetic, round-to-nearest-even.  A positive double   *)
(* is [exp, man]: man is its MantBits-bit significand as an integer        *)
(* (2^52 <= man < 2^53) and its value is man * 2^(exp - 52).               *)
(***************************************************************************)
MantBits == 53

Zero == [exp |-> 0, man |-> <<>>]

\* the double of significand m (possibly grown to 2^53 by rounding up)
Renormalise(m, e) ==
    IF BigBitLength(m) > MantBits
    THEN [exp |-> e + 1, man |-> ShiftRight(m, 1)]
    ELSE [exp |-> e, man |-> m]

\* scale p / d so that 1 <= p / d < 2, tracking the exponent
RECURSIVE Normalise(_, _, _)
Normalise(p, d, e) ==
    IF p < d THEN Normalise(2 * p, d, e - 1)
    ELSE IF p >= 2 * d THEN Normalise(p, 2 * d, e + 1)
    ELSE [p |-> p, d |-> d, e |-> e]

\* Python's int / int: the double nearest to p / d   (p >= 0, d > 0)
TrueDiv(p, d) ==
    IF p = 0 THEN Zero
    ELSE LET n   == Normalise(p, d, 0)
             num == ShiftLeft(BigOfInt(n.p), MantBits - 1)
             q   == BigDivSmall(num, n.d, Len(num), 0)
             m   == BigTrim(q.quot)
             up  == 2 * q.rem > n.d \/ (2 * q.rem = n.d /\ m[1] % 2 = 1)
         IN  Renormalise(IF up THEN BigAdd(m, <<1>>, 0) ELSE m, n.e)

\* Python's float * int (the int converts exactly): the double nearest to
\* the exact product
FloatMul(f, x) ==
    IF f = Zero \/ x = 0 THEN Zero
    ELSE LET prod == BigMulSmall(f.man, x, 0)
             s    == BigBitLength(prod) - MantBits
             m    == ShiftRight(prod, s)
             cut  == LowBits(prod, s)
             half == IF s = 0 THEN 1 ELSE Pow2(s - 1)
             up   == s > 0 /\ (cut > half \/ (cut = half /\ m[1] % 2 = 1))
         IN  Renormalise(IF up THEN BigAdd(m, <<1>>, 0) ELSE m, f.exp + s)

\* Python's int(f) for f >= 0: truncation toward zero
IntOfFloat(f) ==
    IF f = Zero \/ f.exp < 0 THEN 0
    ELSE IntOfBig(ShiftRight(f.man, (MantBits - 1) - f.exp))

(***************************************************************************)
(* Colour helpers.  val is (r, g, b, a); Python's val[3] is val[4] here.   *)
(***************************************************************************)
HexChars == <<"0", "1", "2", "3", "4", "5", "6", "7",
              "8", "9", "a", "b", "c", "d", "e", "f">>

RECURSIVE HexDigits(_)
HexDigits(n) ==
    IF n < 16 THEN <<HexChars[n + 1]>>
    ELSE Append(HexDigits(n \div 16), HexChars[(n % 16) + 1])

\* '%02x' % n
Fmt02x(n) == LET d == HexDigits(n) IN IF Len(d) < 2 THEN <<"0">> \o d ELSE d

\* the double a channel of val holds
Channel(n) == TrueDiv(n, ChanDen)

\* int(c * 255)
ByteOf(c) == IntOfFloat(FloatMul(c, 255))

to_hex(v) ==
    <<"#">> \o Fmt02x(ByteOf(v[4])) \o Fmt02x(ByteOf(v[1]))
            \o Fmt02x(ByteOf(v[2])) \o Fmt02x(ByteOf(v[3]))

\* mutant: the channels packed in the order they are stored (r, g, b, a)
color_to_int_rgba(v) ==
    BigAdd(BigAdd(BigAdd(ShiftLeft(BigOfInt(ByteOf(v[1])), 24),
                         ShiftLeft(BigOfInt(ByteOf(v[2])), 16), 0),
                  ShiftLeft(BigOfInt(ByteOf(v[3])), 8), 0),
           BigOfInt(ByteOf(v[4])), 0)

color_to_int(v) ==
    BigAdd(BigAdd(BigAdd(ShiftLeft(BigOfInt(ByteOf(v[4])), 24),
                         ShiftLeft(BigOfInt(ByteOf(v[1])), 16), 0),
                  ShiftLeft(BigOfInt(ByteOf(v[2])), 8), 0),
           BigOfInt(ByteOf(v[3])), 0)

(***************************************************************************)
(* get_render_resolution                                                   *)
(***************************************************************************)
get_render_resolution(r) ==
    LET scale == TrueDiv(r.resolution_percentage, 100)
    IN  <<IntOfFloat(FloatMul(scale, r.resolution_x)),
          IntOfFloat(FloatMul(scale, r.resolution_y))>>

(***************************************************************************)
(* safe_assetpath: s[2:]                                                   *)
(***************************************************************************)
\* mutant: only a leading '//' is removed
safe_assetpath_slashes(s) ==
    IF Len(s) >= 2 /\ s[1] = "/" /\ s[2] = "/" THEN SubSeq(s, 3, Len(s)) ELSE s

safe_assetpath(s) == SubSeq(s, 3, Len(s))

(***************************************************************************)
(* Python values handed to write_arm: integers, strings and mappings.  A   *)
(* mapping is a function from keys (integers or strings) to values; the    *)
(* keys of one mapping are of one type, so that sort_keys can order them.  *)
(***************************************************************************)
IntV(n) == [kind |-> "int", n |-> n, s |-> <<>>, m |-> <<>>]
StrV(s) == [kind |-> "str", n |-> 0, s |-> s, m |-> <<>>]
MapV(m) == [kind |-> "map", n |-> 0, s |-> <<>>, m |-> m]
IntK(n) == [kind |-> "int", n |-> n, s |-> <<>>]
StrK(s) == [kind |-> "str", n |-> 0, s |-> s]

\* the characters the serialized text is made of, with their code points
CodePoints ==
    {<<"\n", 10>>, <<" ", 32>>, <<"\"", 34>>, <<",", 44>>, <<"0", 48>>,
     <<"1", 49>>, <<"2", 50>>, <<"3", 51>>, <<"4", 52>>, <<"5", 53>>,
     <<"6", 54>>, <<"7", 55>>, <<"8", 56>>, <<"9", 57>>, <<":", 58>>,
     <<"a", 97>>, <<"b", 98>>, <<"{", 123>>, <<"}", 125>>}

OrdTable == [c \in {p[1] : p \in CodePoints} |->
                (CHOOSE p \in CodePoints : p[1] = c)[2]]
ChrTable == [n \in {p[2] : p \in CodePoints} |->
                (CHOOSE p \in CodePoints : p[2] = n)[1]]

Ord(c) == OrdTable[c]
Chr(n) == ChrTable[n]

\* str.encode(): the bytes a text is stored as
Encode(chars) == [i \in 1..Len(chars) |-> Ord(chars[i])]

DecChars == <<"0", "1", "2", "3", "4", "5", "6", "7", "8", "9">>

\* str(n) of a non-negative integer
RECURSIVE DecDigits(_)
DecDigits(n) ==
    IF n < 10 THEN <<DecChars[n + 1]>>
    ELSE Append(DecDigits(n \div 10), DecChars[(n % 10) + 1])

RECURSIVE StrLess(_, _)
StrLess(a, b) ==
    IF b = <<>> THEN FALSE
    ELSE IF a = <<>> THEN TRUE
    ELSE IF Ord(Head(a)) # Ord(Head(b)) THEN Ord(Head(a)) < Ord(Head(b))
    ELSE StrLess(Tail(a), Tail(b))

KeyLess(a, b) == IF a.kind = "int" THEN a.n < b.n ELSE StrLess(a.s, b.s)

\* sorted(keys)
RECURSIVE SortKeys(_)
SortKeys(ks) ==
    IF ks = {} THEN <<>>
    ELSE LET least == CHOOSE k \in ks : \A o \in ks \ {k} : KeyLess(k, o)
         IN  <<least>> \o SortKeys(ks \ {least})

RECURSIVE Spaces(_)
Spaces(n) == IF n = 0 THEN <<>> ELSE <<" ">> \o Spaces(n - 1)

\* the key of a JSON object member: a string; an integer key is written as
\* its decimal digits
JsonKey(k) == IF k.kind = "int" THEN DecDigits(k.n) ELSE k.s

\* json.dumps(v, sort_keys=True, indent=4), at nesting depth `level'
RECURSIVE JsonText(_, _), JsonMembers(_, _, _)
JsonText(v, level) ==
    IF v.kind = "int" THEN DecDigits(v.n)
    ELSE IF v.kind = "str" THEN <<"\"">> \o v.s \o <<"\"">>
    ELSE IF DOMAIN v.m = {} THEN <<"{", "}">>
    ELSE <<"{", "\n">> \o JsonMembers(v.m, SortKeys(DOMAIN v.m), level + 1)
                        \o <<"\n">> \o Spaces(4 * level) \o <<"}">>
JsonMembers(m, keys, level) ==
    LET k    == Head(keys)
        item == Spaces(4 * level) \o <<"\"">> \o JsonKey(k) \o <<"\"", ":", " ">>
                    \o JsonText(m[k], level)
    IN  IF Len(keys) = 1 THEN item
        ELSE item \o <<",", "\n">> \o JsonMembers(m, Tail(keys), level)

\* mutant: every leaf written with str(), integers quoted like strings
RECURSIVE JsonTextQuoted(_, _), JsonMembersQuoted(_, _, _)
JsonTextQuoted(v, level) ==
    IF v.kind = "int" THEN <<"\"">> \o DecDigits(v.n) \o <<"\"">>
    ELSE IF v.kind = "str" THEN <<"\"">> \o v.s \o <<"\"">>
    ELSE IF DOMAIN v.m = {} THEN <<"{", "}">>
    ELSE <<"{", "\n">> \o JsonMembersQuoted(v.m, SortKeys(DOMAIN v.m), level + 1)
                        \o <<"\n">> \o Spaces(4 * level) \o <<"}">>
JsonMembersQuoted(m, keys, level) ==
    LET k    == Head(keys)
        item == Spaces(4 * level) \o <<"\"">> \o JsonKey(k) \o <<"\"", ":", " ">>
                    \o JsonTextQuoted(m[k], level)
    IN  IF Len(keys) = 1 THEN item
        ELSE item \o <<",", "\n">> \o JsonMembersQuoted(m, Tail(keys), level)

json_dumps_quoted(out) == JsonTextQuoted(out, 0)

json_dumps(out) == JsonText(out, 0)

\* lib.umsgpack.dumps: fixmap, positive fixint and fixstr of the MessagePack
\* format; the members of a map in the mapping's key order
RECURSIVE umsgpack_dumps(_), PackMembers(_, _)
umsgpack_dumps(v) ==
    IF v.kind = "int" THEN <<v.n>>
    ELSE IF v.kind = "str" THEN <<160 + Len(v.s)>> \o Encode(v.s)
    ELSE <<128 + Cardinality(DOMAIN v.m)>> \o PackMembers(v.m, SortKeys(DOMAIN v.m))
PackMembers(m, keys) ==
    IF keys = <<>> THEN <<>>
    ELSE LET k  == Head(keys)
             kv == IF k.kind = "int" THEN IntV(k.n) ELSE StrV(k.s)
         IN  umsgpack_dumps(kv) \o umsgpack_dumps(m[k]) \o PackMembers(m, Tail(keys))

(***************************************************************************)
(* Files.  A path holds a plain file (its bytes) or a zip archive (its     *)
(* entries, in order).                                                     *)
(***************************************************************************)
PlainFile(bytes) == [kind |-> "file", data |-> bytes, entries |-> <<>>]
ZipFile(entries) == [kind |-> "zip", data |-> <<>>, entries |-> entries]
ZipEntry(name, compress_type, bytes) ==
    [name |-> name, compress_type |-> compress_type, data |-> bytes]

EndsWith(s, suffix) ==
    /\ Len(s) >= Len(suffix)
    /\ SubSeq(s, Len(s) - Len(suffix) + 1, Len(s)) = suffix

DotZip == <<".", "z", "i", "p">>

\* mutant: the archive branch tests the flag the wrong way round
write_arm_inverted(fs, target, out, minimize) ==
    IF EndsWith(target, DotZip)
    THEN [fs EXCEPT ![target] =
            ZipFile(<<ZipEntry("data.arm", "ZIP_DEFLATED",
                               IF ~minimize THEN umsgpack_dumps(out)
                               ELSE Encode(json_dumps(out)))>>)]
    ELSE [fs EXCEPT ![target] =
            PlainFile(IF minimize THEN umsgpack_dumps(out)
                      ELSE Encode(json_dumps(out)))]

\* the files after write_arm(filepath, output), arm_minimize being `minimize'
write_arm(fs, target, out, minimize) ==
    IF EndsWith(target, DotZip)
    THEN [fs EXCEPT ![target] =
            ZipFile(<<ZipEntry("data.arm", "ZIP_DEFLATED",
                               IF minimize THEN umsgpack_dumps(out)
                               ELSE Encode(json_dumps(out)))>>)]
    ELSE [fs EXCEPT ![target] =
            PlainFile(IF minimize THEN umsgpack_dumps(out)
                      ELSE Encode(json_dumps(out)))]

(***************************************************************************)
(* The flag and the helpers that read the host: platform.system(), the     *)
(* add-on preferences, bpy.app.binary_path, bpy.data.filepath.             *)
(***************************************************************************)
\* a helper call: its name, the boolean, string or OS name it returned (or,
\* for register, whether find_spec found 'barmory'), and whether it raised
Call(op, b, s, os, raised) ==
    [op |-> op, b |-> b, s |-> s, os |-> os, raised |-> raised]

NoCall == Call("", FALSE, <<>>, "", FALSE)

with_chromium == chromium_found

\* mutant: the flag is set whatever find_spec returns
register_always(flag, found) == TRUE

\* chromium_found after register(), `found' telling whether
\* importlib.util.find_spec('barmory') is not None
register(flag, found) == IF found THEN TRUE ELSE flag

\* mutant: unregistering clears the flag
unregister_reset(flag) == FALSE

\* chromium_found after unregister()
unregister(flag) == flag

get_os ==
    IF platform_system = "Windows" THEN "win"
    ELSE IF platform_system = "Darwin" THEN "mac"
    ELSE "linux"

\* s[:-n] for n > 0
DropLast(s, n) == SubSeq(s, 1, Len(s) - n)

ArmSdk == <<"/", "a", "r", "m", "s", "d", "k", "/">>

\* mutant: the bundled SDK is used whenever the preference asks for it
get_sdk_path_unchecked ==
    IF sdk_bundled
    THEN IF get_os = "mac" THEN DropLast(binary_path, 34) \o ArmSdk
         ELSE IF get_os = "linux" THEN DropLast(binary_path, 7) \o ArmSdk
         ELSE DropLast(binary_path, 11) \o ArmSdk
    ELSE sdk_path

get_sdk_path ==
    IF with_chromium /\ sdk_bundled
    THEN IF get_os = "mac" THEN DropLast(binary_path, 34) \o ArmSdk
         ELSE IF get_os = "linux" THEN DropLast(binary_path, 7) \o ArmSdk
         ELSE DropLast(binary_path, 11) \o ArmSdk
    ELSE sdk_path

\* os.path.sep
PathSep == IF platform_system = "Windows" THEN "\\" ELSE "/"

\* s.split(sep): the pieces between the separators, at least one
RECURSIVE Split(_, _, _)
Split(s, sep, piece) ==
    IF s = <<>> THEN <<piece>>
    ELSE IF Head(s) = sep THEN <<piece>> \o Split(Tail(s), sep, <<>>)
    ELSE Split(Tail(s), sep, Append(piece, Head(s)))

\* sep.join(pieces)
RECURSIVE Join(_, _)
Join(pieces, sep) ==
    IF pieces = <<>> THEN <<>>
    ELSE IF Len(pieces) = 1 THEN pieces[1]
    ELSE pieces[1] \o <<sep>> \o Join(Tail(pieces), sep)

get_fp ==
    LET s == Split(filepath, PathSep, <<>>)
    IN  Join(SubSeq(s, 1, Len(s) - 1), PathSep)

(***************************************************************************)
(* Directories.  dirs maps the absolute, normalised path of every existing *)
(* directory to the names it holds.                                        *)
(***************************************************************************)
IsAbsolute(path) ==
    /\ path # <<>>
    /\ \/ path[1] = "/"
       \/ PathSep = "\\" /\ (path[1] = "\\" \/ (Len(path) >= 2 /\ path[2] = ":"))

\* '/' for every separator, runs of '/' collapsed, no trailing '/'
RECURSIVE Collapse(_, _)
Collapse(path, prev) ==
    IF path = <<>> THEN <<>>
    ELSE LET c == IF Head(path) = PathSep THEN "/" ELSE Head(path)
         IN  IF c = "/" /\ (prev = "/" \/ (Len(path) = 1 /\ prev # ""))
             THEN Collapse(Tail(path), prev)
             ELSE <<c>> \o Collapse(Tail(path), c)

\* the directory `path' names when the current directory is `from'
Resolve(from, path) ==
    Collapse(IF IsAbsolute(path) THEN path ELSE from \o <<"/">> \o path, "")

DotHx == <<".", "h", "x">>

\* glob.glob('*.hx') in directory d: the names ending in '.hx' that do not
\* start with a dot
Glob(d) == {f \in dirs[d] : EndsWith(f, DotHx) /\ f[1] # "."}

\* the orders in which glob may return the names
Orders(names) ==
    {o \in [1..Cardinality(names) -> names] :
        \A i, j \in DOMAIN o : o[i] = o[j] => i = j}

\* mutant: the name up to the last '.', as with rsplit('.', 1)
ScriptNameLastDot(file) ==
    LET parts == Split(file, ".", <<>>)
    IN  Join(SubSeq(parts, 1, Len(parts) - 1), ".")

\* file.rsplit('.')[0]
ScriptName(file) == Split(file, ".", <<>>)[1]

TraitDir == <<"/", "a", "r", "m", "o", "r", "y", "/", "S", "o", "u", "r", "c", "e", "s",
              "/", "a", "r", "m", "o", "r", "y", "/", "t", "r", "a", "i", "t">>
SourcesDir == <<"/", "S", "o", "u", "r", "c", "e", "s", "/">>
arm_project_package == <<"g">>

(***************************************************************************)
(* The state the helpers of one family do not touch.                       *)
(***************************************************************************)
ColorIdle == val = <<>> /\ hex_out = <<>> /\ int_out = <<>>
ResIdle   == render = [resolution_x |-> 0, resolution_y |-> 0,
                        resolution_percentage |-> 0] /\ res_out = <<>>
PathIdle  == s_in = <<>> /\ s_out = <<>>
ArmIdle   == /\ output = MapV(<<>>) /\ arm_minimize = FALSE
             /\ files = <<>> /\ last_write = [filepath |-> <<>>, minimize |-> FALSE]
HostIdle  == /\ chromium_found = FALSE /\ barmory_seen = FALSE
             /\ platform_system = "Linux" /\ binary_path = <<>>
             /\ sdk_bundled = FALSE /\ sdk_path = <<>> /\ filepath = <<>>
             /\ dirs = <<>> /\ cwd = <<>>
             /\ bundled_scripts_list = <<>> /\ scripts_list = <<>>
             /\ last_call = NoCall

(***************************************************************************)
(* SpecColor: to_hex and color_to_int applied to every colour whose        *)
(* channels are among the doubles n / ChanDen.                             *)
(***************************************************************************)
Channels == {Channel(n) : n \in 0..ChanDen}

ColorInit ==
    /\ called = {}
    /\ val \in [1..4 -> Channels]
    /\ hex_out = <<>> /\ int_out = <<>>
    /\ ResIdle /\ PathIdle /\ ArmIdle /\ HostIdle

ToHex ==
    /\ "to_hex" \notin called
    /\ hex_out' = to_hex(val)
    /\ called' = called \cup {"to_hex"}
    /\ UNCHANGED <<val, int_out, resVars, pathVars, armVars, hostVars>>

ColorToInt ==
    /\ "color_to_int" \notin called
    /\ int_out' = color_to_int(val)
    /\ called' = called \cup {"color_to_int"}
    /\ UNCHANGED <<val, hex_out, resVars, pathVars, armVars, hostVars>>

ColorNext == ToHex \/ ColorToInt

SpecColor == ColorInit /\ [][ColorNext]_vars

(***************************************************************************)
(* SpecRes: get_render_resolution on every render setting of the bounds.   *)
(***************************************************************************)
ResolutionsX == {0, 50, 100, 640, 1920}
ResolutionsY == {0, 90, 1080}

ResInit ==
    /\ called = {}
    /\ render \in [resolution_x : ResolutionsX, resolution_y : ResolutionsY,
                    resolution_percentage : 1..MaxPct]
    /\ res_out = <<>>
    /\ ColorIdle /\ PathIdle /\ ArmIdle /\ HostIdle

GetRenderResolution ==
    /\ "get_render_resolution" \notin called
    /\ res_out' = get_render_resolution(render)
    /\ called' = called \cup {"get_render_resolution"}
    /\ UNCHANGED <<render, colorVars, pathVars, armVars, hostVars>>

ResNext == GetRenderResolution

SpecRes == ResInit /\ [][ResNext]_vars

(***************************************************************************)
(* SpecPath: safe_assetpath on every string of at most MaxLen characters.  *)
(***************************************************************************)
PathChars == {"/", "a", "b"}

Strings(n) == UNION {[1..k -> PathChars] : k \in 0..n}

PathInit ==
    /\ called = {}
    /\ s_in \in Strings(MaxLen)
    /\ s_out = <<>>
    /\ ColorIdle /\ ResIdle /\ ArmIdle /\ HostIdle

SafeAssetpath ==
    /\ "safe_assetpath" \notin called
    /\ s_out' = safe_assetpath(s_in)
    /\ called' = called \cup {"safe_assetpath"}
    /\ UNCHANGED <<s_in, colorVars, resVars, armVars, hostVars>>

PathNext == SafeAssetpath

SpecPath == PathInit /\ [][PathNext]_vars

(***************************************************************************)
(* SpecArm: write_arm called on every mapping of the bounds, to a plain    *)
(* path and to a '.zip' path, while the user may toggle arm_minimize.      *)
(***************************************************************************)
ArmLeaves == {IntV(12), StrV(<<"b">>)}

ArmKeySets ==
    (SUBSET {StrK(<<"a">>), StrK(<<"b">>)}) \cup
    ((SUBSET {IntK(k) : k \in 1..MaxIntKey}) \ {{}})

MapsOver(values) == UNION {{MapV(f) : f \in [ks -> values]} : ks \in ArmKeySets}

Mappings == MapsOver(ArmLeaves \cup MapsOver(ArmLeaves))

PlainPath == <<"a", ".", "a", "r", "m">>
ZipPath   == <<"a", ".", "z", "i", "p">>
ArmPaths  == {PlainPath, ZipPath}

\* what the two paths hold before the first call
OldFiles ==
    (PlainPath :> PlainFile(<<111, 108, 100>>)) @@
    (ZipPath :> ZipFile(<<ZipEntry("data.arm", "ZIP_DEFLATED", <<111>>),
                          ZipEntry("old.bin", "ZIP_STORED", <<0>>)>>))

ArmInit ==
    /\ called = {}
    /\ output \in Mappings
    /\ arm_minimize \in BOOLEAN
    /\ files = OldFiles
    /\ last_write = [filepath |-> <<>>, minimize |-> FALSE]
    /\ ColorIdle /\ ResIdle /\ PathIdle /\ HostIdle

WriteArm(target) ==
    /\ files' = write_arm(files, target, output, arm_minimize)
    /\ last_write' = [filepath |-> target, minimize |-> arm_minimize]
    /\ called' = called \cup {"write_arm"}
    /\ UNCHANGED <<output, arm_minimize, colorVars, resVars, pathVars, hostVars>>

\* the user sets or clears bpy.data.worlds['Arm'].arm_minimize
SetMinimize ==
    /\ arm_minimize' = ~arm_minimize
    /\ UNCHANGED <<called, output, files, last_write, colorVars, resVars, pathVars,
                   hostVars>>

ArmNext == (\E target \in ArmPaths : WriteArm(target)) \/ SetMinimize

SpecArm == ArmInit /\ [][ArmNext]_vars

(***************************************************************************)
(* Reading back what write_arm wrote: json.loads and umsgpack.loads.       *)
(***************************************************************************)
\* bytes.decode()
Decode(bytes) == [i \in 1..Len(bytes) |-> Chr(bytes[i])]

Whitespace == {" ", "\n"}

RECURSIVE SkipWs(_, _)
SkipWs(t, i) ==
    IF i > Len(t) \/ t[i] \notin Whitespace THEN i ELSE SkipWs(t, i + 1)

\* the first index from i on that holds c
RECURSIVE FindChar(_, _, _)
FindChar(t, i, c) == IF t[i] = c THEN i ELSE FindChar(t, i + 1, c)

DigitChars == {DecChars[i] : i \in 1..10}

RECURSIVE EndOfDigits(_, _)
EndOfDigits(t, i) ==
    IF i > Len(t) \/ t[i] \notin DigitChars THEN i ELSE EndOfDigits(t, i + 1)

RECURSIVE ParseDec(_)
ParseDec(s) ==
    IF s = <<>> THEN 0
    ELSE 10 * ParseDec(SubSeq(s, 1, Len(s) - 1)) +
         (CHOOSE d \in 0..9 : DecChars[d + 1] = s[Len(s)])

RECURSIVE JsonValue(_, _), JsonObject(_, _, _)
JsonValue(t, i) ==
    IF t[i] = "{"
    THEN LET j == SkipWs(t, i + 1)
         IN  IF t[j] = "}" THEN [v |-> MapV(<<>>), next |-> j + 1]
             ELSE JsonObject(t, j, <<>>)
    ELSE IF t[i] = "\""
    THEN LET j == FindChar(t, i + 1, "\"")
         IN  [v |-> StrV(SubSeq(t, i + 1, j - 1)), next |-> j + 1]
    ELSE LET j == EndOfDigits(t, i)
         IN  [v |-> IntV(ParseDec(SubSeq(t, i, j - 1))), next |-> j]
JsonObject(t, i, acc) ==
    LET q     == FindChar(t, i + 1, "\"")
        key   == StrK(SubSeq(t, i + 1, q - 1))
        colon == SkipWs(t, q + 1)
        item   == JsonValue(t, SkipWs(t, colon + 1))
        sep   == SkipWs(t, item.next)
        more  == (key :> item.v) @@ acc
    IN  IF t[sep] = "," THEN JsonObject(t, SkipWs(t, sep + 1), more)
        ELSE [v |-> MapV(more), next |-> sep + 1]

json_loads(text) == JsonValue(text, SkipWs(text, 1)).v

RECURSIVE Unpack(_, _), UnpackMembers(_, _, _, _)
Unpack(b, i) ==
    IF b[i] < 128 THEN [v |-> IntV(b[i]), next |-> i + 1]
    ELSE IF b[i] >= 160
    THEN LET n == b[i] - 160
         IN  [v |-> StrV(Decode(SubSeq(b, i + 1, i + n))), next |-> i + n + 1]
    ELSE UnpackMembers(b, i + 1, b[i] - 128, <<>>)
UnpackMembers(b, i, n, acc) ==
    IF n = 0 THEN [v |-> MapV(acc), next |-> i]
    ELSE LET k   == Unpack(b, i)
             item == Unpack(b, k.next)
             key == IF k.v.kind = "int" THEN IntK(k.v.n) ELSE StrK(k.v.s)
         IN  UnpackMembers(b, item.next, n - 1, (key :> item.v) @@ acc)

umsgpack_loads(bytes) == Unpack(bytes, 1).v

Written == last_write.filepath # <<>>

\* the bytes a reader finds at the path last written
ReadPayload ==
    LET f == files[last_write.filepath]
    IN  IF EndsWith(last_write.filepath, DotZip)
        THEN (CHOOSE e \in {f.entries[i] : i \in 1..Len(f.entries)} :
                e.name = "data.arm").data
        ELSE f.data

\* decoded with the decoder matching the encoding chosen at the call
ReadBack ==
    IF last_write.minimize THEN umsgpack_loads(ReadPayload)
    ELSE json_loads(Decode(ReadPayload))

RECURSIVE AllStrKeys(_)
AllStrKeys(v) ==
    v.kind = "map" =>
        \A k \in DOMAIN v.m : k.kind = "str" /\ AllStrKeys(v.m[k])

Payload(minimize) ==
    IF minimize THEN umsgpack_dumps(output) ELSE Encode(json_dumps(output))

C5_Written ==
    Written =>
        LET f == files[last_write.filepath]
        IN  /\ Payload(TRUE) # Payload(FALSE)
            /\ IF EndsWith(last_write.filepath, DotZip)
               THEN /\ f.kind = "zip"
                    /\ Len(f.entries) = 1
                    /\ f.entries[1].name = "data.arm"
                    /\ f.entries[1].compress_type = "ZIP_DEFLATED"
                    /\ f.entries[1].data = Payload(last_write.minimize)
               ELSE /\ f.kind = "file"
                    /\ f.data = Payload(last_write.minimize)

C5_OnePayload ==
    \A q \in ArmPaths : files'[q] # files[q] => q = last_write'.filepath

Home        == <<"/", "h">>
UserSdk     == <<"/", "s", "d", "k">>
MacBinary   == <<"/", "A", "/", "b", "l", "e", "n", "d", "e", "r", ".", "a", "p", "p",
                 "/", "C", "o", "n", "t", "e", "n", "t", "s", "/", "M", "a", "c", "O",
                 "S", "/", "b", "l", "e", "n", "d", "e", "r">>
ShortBinary == <<"b", "l", "e", "n", "d">>

\* the saved .blend file, and the directory it is in
ProjectFile ==
    IF platform_system = "Windows"
    THEN <<"C", ":", "\\", "p", "\\", "a", ".", "b", "l", "e", "n", "d">>
    ELSE <<"/", "p", "/", "a", ".", "b", "l", "e", "n", "d">>
ProjectDir ==
    IF platform_system = "Windows" THEN <<"C", ":", "/", "p">> ELSE <<"/", "p">>

UserTraitFiles ==
    {<<"a", ".", "h", "x">>, <<"b", ".", "c", ".", "h", "x">>,
     <<".", "d", ".", "h", "x">>, <<"e", ".", "h">>}
BundledTraitFiles == {<<"z", ".", "h", "x">>}
SourceFiles == {<<"m", ".", "h", "x">>, <<"h", "x">>}

\* the directories of a host: the SDKs' trait directories when the SDKs are
\* installed, the project's sources directory when the project has one
HostDirs(withSdk, withSources) ==
    LET always  == (Home :> {}) @@
                   (ProjectDir :> {<<"a", ".", "b", "l", "e", "n", "d">>})
        sdk     == (Collapse(UserSdk \o TraitDir, "") :> UserTraitFiles) @@
                   (Collapse(DropLast(binary_path, 34) \o ArmSdk \o TraitDir, "")
                        :> BundledTraitFiles) @@
                   (Collapse(DropLast(binary_path, 11) \o ArmSdk \o TraitDir, "")
                        :> BundledTraitFiles) @@
                   (Collapse(DropLast(binary_path, 7) \o ArmSdk \o TraitDir, "")
                        :> BundledTraitFiles)
        sources == (ProjectDir \o <<"/", "S", "o", "u", "r", "c", "e", "s", "/", "g">>)
                        :> SourceFiles
    IN  always @@ (IF withSdk THEN sdk ELSE <<>>)
               @@ (IF withSources THEN sources ELSE <<>>)

StaleList == <<<<"o", "l", "d">>>>

HostInit ==
    /\ called = {}
    /\ ColorIdle /\ ResIdle /\ PathIdle /\ ArmIdle
    /\ chromium_found = FALSE
    /\ barmory_seen = FALSE
    /\ platform_system \in {"Windows", "Darwin", "Linux", "FreeBSD"}
    /\ binary_path \in {MacBinary, ShortBinary}
    /\ sdk_bundled \in BOOLEAN
    /\ sdk_path = UserSdk
    /\ filepath \in {<<>>, ProjectFile}
    /\ \E withSdk, withSources \in BOOLEAN : dirs = HostDirs(withSdk, withSources)
    /\ cwd = Home
    /\ \E stale \in {<<>>, StaleList} :
            bundled_scripts_list = stale /\ scripts_list = stale
    /\ last_call = NoCall

HostFrame == UNCHANGED <<called, colorVars, resVars, pathVars, armVars, hostEnv>>

Register(found) ==
    /\ chromium_found' = register(chromium_found, found)
    /\ barmory_seen' = (barmory_seen \/ found)
    /\ last_call' = Call("register", found, <<>>, "", FALSE)
    /\ HostFrame /\ UNCHANGED <<cwd, listVars>>

Unregister ==
    /\ chromium_found' = unregister(chromium_found)
    /\ last_call' = Call("unregister", FALSE, <<>>, "", FALSE)
    /\ HostFrame /\ UNCHANGED <<barmory_seen, cwd, listVars>>

WithChromium ==
    /\ last_call' = Call("with_chromium", with_chromium, <<>>, "", FALSE)
    /\ HostFrame /\ UNCHANGED <<chromium_found, barmory_seen, cwd, listVars>>

GetOs ==
    /\ last_call' = Call("get_os", FALSE, <<>>, get_os, FALSE)
    /\ HostFrame /\ UNCHANGED <<chromium_found, barmory_seen, cwd, listVars>>

GetFp ==
    /\ last_call' = Call("get_fp", FALSE, get_fp, "", FALSE)
    /\ HostFrame /\ UNCHANGED <<chromium_found, barmory_seen, cwd, listVars>>

GetSdkPath ==
    /\ last_call' = Call("get_sdk_path", FALSE, get_sdk_path, "", FALSE)
    /\ HostFrame /\ UNCHANGED <<chromium_found, barmory_seen, cwd, listVars>>

\* the names the list holds after one add() per file
EntryNames(order) == [i \in DOMAIN order |-> ScriptName(order[i])]

FetchScriptNames ==
    /\ HostFrame /\ UNCHANGED <<chromium_found, barmory_seen>>
    /\ IF filepath = <<>>
       THEN /\ last_call' = Call("fetch_script_names", FALSE, <<>>, "", FALSE)
            /\ UNCHANGED <<cwd, listVars>>
       ELSE LET trait == Resolve(cwd, get_sdk_path \o TraitDir)
                src   == Resolve(trait, get_fp \o SourcesDir \o arm_project_package)
            IN  IF trait \notin DOMAIN dirs
                THEN \* os.chdir raises FileNotFoundError, the first list cleared
                     /\ bundled_scripts_list' = <<>>
                     /\ last_call' = Call("fetch_script_names", FALSE, <<>>, "", TRUE)
                     /\ UNCHANGED <<cwd, scripts_list>>
                ELSE /\ \E order \in Orders(Glob(trait)) :
                            bundled_scripts_list' = EntryNames(order)
                     /\ IF src \in DOMAIN dirs
                        THEN \E order \in Orders(Glob(src)) :
                                scripts_list' = EntryNames(order)
                        ELSE scripts_list' = <<>>
                     /\ cwd' = Resolve(IF src \in DOMAIN dirs THEN src ELSE trait,
                                       get_fp)
                     /\ last_call' = Call("fetch_script_names", FALSE, <<>>, "", FALSE)

HostNext ==
    \/ \E found \in BOOLEAN : Register(found)
    \/ Unregister
    \/ WithChromium
    \/ GetOs
    \/ GetFp
    \/ GetSdkPath
    \/ FetchScriptNames

SpecHost == HostInit /\ [][HostNext]_vars

(***************************************************************************)
(* C6: as long as no register() call has found 'barmory', chromium_found   *)
(* is false and with_chromium() returns false; a register() call that does *)
(* not find it leaves the flag as it was.                                  *)
(***************************************************************************)
C6_FalseUntilFound ==
    ~barmory_seen =>
        /\ chromium_found = FALSE
        /\ last_call.op = "with_chromium" => last_call.b = FALSE

C6_NotFoundKeeps ==
    (last_call'.op = "register" /\ ~last_call'.b) => chromium_found' = chromium_found

\* C6: the flag is false until register() finds the component, and a
\* register() that does not find it keeps the flag.
C6_FlagFalseUntilRegistered == []C6_FalseUntilFound /\ [][C6_NotFoundKeeps]_vars

C6_Witness ==
    /\ ~barmory_seen
    /\ ~chromium_found
    /\ last_call = Call("register", FALSE, <<>>, "", FALSE)
    /\ cwd # Home

(***************************************************************************)
(* C7: chromium_found only ever changes from false to true, and only in    *)
(* register(); with_chromium() returns its current value and unregister()  *)
(* never resets it.                                                        *)
(***************************************************************************)
C7_Monotonic == chromium_found => chromium_found'

C7_OnlyRegister == chromium_found' # chromium_found => last_call'.op = "register"

C7_ReadsFlag == last_call.op = "with_chromium" => last_call.b = chromium_found

\* C7: the flag is set once, by register() only, and read unchanged.
C7_SetOnce ==
    /\ [][C7_Monotonic]_vars
    /\ [][C7_OnlyRegister]_vars
    /\ []C7_ReadsFlag

C7_Witness ==
    /\ chromium_found
    /\ last_call.op = "unregister"

(***************************************************************************)
(* C8: every helper other than register() leaves the process-wide state -  *)
(* the flag and the process's current working directory - unchanged.       *)
(***************************************************************************)
C8_OnlyRegisterChanges ==
    last_call'.op # "register" => (chromium_found' = chromium_found /\ cwd' = cwd)

\* C8: no step of a helper other than register() changes the flag or the
\* current working directory.
C8_NoSharedStateChange == [][C8_OnlyRegisterChanges]_vars

(***************************************************************************)
(* C9: with an empty file path fetch_script_names leaves both lists        *)
(* unchanged; otherwise, afterwards, bundled_scripts_list holds one entry  *)
(* per '*.hx' file of the SDK trait directory and scripts_list one per     *)
(* '*.hx' file of the project sources directory (none when it does not     *)
(* exist), each named by the file name up to its first '.'.                *)
(***************************************************************************)
Stem(file) == SubSeq(file, 1, FindChar(file, 1, ".") - 1)

Count(list, name) == Cardinality({i \in DOMAIN list : list[i] = name})

\* list holds exactly one entry per '*.hx' file of directory d
ListsDir(list, d) ==
    LET found == IF d \in DOMAIN dirs THEN Glob(d) ELSE {}
    IN  /\ Len(list) = Cardinality(found)
        /\ \A f \in found :
                Count(list, Stem(f)) = Cardinality({g \in found : Stem(g) = Stem(f)})

SdkTraitDir == Collapse(get_sdk_path \o TraitDir, "")
ProjectSourcesDir == Collapse(get_fp \o SourcesDir \o arm_project_package, "")

Fetched == last_call.op = "fetch_script_names"

ListsScanned ==
    /\ ListsDir(bundled_scripts_list, SdkTraitDir)
    /\ ListsDir(scripts_list, ProjectSourcesDir)

C9_EmptyPathKeeps ==
    (last_call'.op = "fetch_script_names" /\ filepath = <<>>) =>
        UNCHANGED <<bundled_scripts_list, scripts_list>>

C9_Returned ==
    (Fetched /\ filepath # <<>>) =>
        /\ last_call.raised <=> SdkTraitDir \notin DOMAIN dirs
        /\ ~last_call.raised => ListsScanned
        /\ last_call.raised => bundled_scripts_list = <<>>

C9_RaisedKeeps ==
    (last_call'.op = "fetch_script_names" /\ last_call'.raised) =>
        UNCHANGED <<scripts_list, cwd>>

WithoutSuffix(s, n) == [i \in 1..(IF Len(s) > n THEN Len(s) - n ELSE 0) |-> s[i]]

OsOf(system) ==
    CASE system = "Windows" -> "win" [] system = "Darwin" -> "mac" [] OTHER -> "linux"

\* C10: what get_os() and get_sdk_path() return, in every reachable state.
C10_SdkPath ==
    /\ last_call.op = "get_os" =>
            /\ last_call.os \in {"win", "mac", "linux"}
            /\ last_call.os = OsOf(platform_system)
    /\ last_call.op = "get_sdk_path" =>
            LET n == IF OsOf(platform_system) = "mac" THEN 34
                     ELSE IF OsOf(platform_system) = "linux" THEN 7 ELSE 11
            IN  /\ last_call.s = IF chromium_found /\ sdk_bundled
                                 THEN WithoutSuffix(binary_path, n) \o ArmSdk
                                 ELSE sdk_path
                /\ ~barmory_seen => last_call.s = sdk_path

C10_Witness ==
    /\ last_call.op = "get_sdk_path"
    /\ chromium_found /\ sdk_bundled
    /\ platform_system = "Darwin"
    /\ binary_path = MacBinary
    /\ last_call.s = <<"/", "A", "/", "/", "a", "r", "m", "s", "d", "k", "/">>

(***************************************************************************)
(* C1: decoding color_to_int(val) as four bytes, most significant first,   *)
(* and decoding the four hex pairs after '#' of to_hex(val), both yield    *)
(* (A, R, G, B), the byte values int(c * 255) of the alpha, red, green and *)
(* blue channels, each within 0..255.                                      *)
(***************************************************************************)
HexValue(c) == (CHOOSE i \in 1..16 : HexChars[i] = c) - 1

HexPair(s, i) == 16 * HexValue(s[i]) + HexValue(s[i + 1])

ARGB == <<ByteOf(val[4]), ByteOf(val[1]), ByteOf(val[2]), ByteOf(val[3])>>

\* C1: both encodings are alpha-first and decode to the channel bytes.
C1_ColourRoundTrip ==
    /\ \A i \in 1..4 : ARGB[i] \in 0..255
    /\ "color_to_int" \in called =>
            /\ Len(int_out) <= 4
            /\ <<ByteAt(int_out, 3), ByteAt(int_out, 2),
                 ByteAt(int_out, 1), ByteAt(int_out, 0)>> = ARGB
    /\ "to_hex" \in called =>
            /\ Len(hex_out) = 9
            /\ hex_out[1] = "#"
            /\ \A i \in 2..9 : \E j \in 1..16 : HexChars[j] = hex_out[i]
            /\ <<HexPair(hex_out, 2), HexPair(hex_out, 4),
                 HexPair(hex_out, 6), HexPair(hex_out, 8)>> = ARGB

C1_Witness ==
    /\ called = {"to_hex", "color_to_int"}
    /\ ARGB = <<255, 63, 127, 191>>
    /\ hex_out = <<"#", "f", "f", "3", "f", "7", "f", "b", "f">>
    /\ int_out = <<191, 127, 63, 255>>

(***************************************************************************)
(* C2: get_render_resolution returns (floor(resolution_x * p / 100),       *)
(* floor(resolution_y * p / 100)) for every base resolution and            *)
(* percentage p.                                                           *)
(***************************************************************************)
\* C2: the result is the exact floor in both dimensions.
C2_ExactFloor ==
    "get_render_resolution" \in called =>
        res_out = <<(render.resolution_x * render.resolution_percentage) \div 100,
                    (render.resolution_y * render.resolution_percentage) \div 100>>

\* the two cases the resolution is exact in: a percentage of 100 and of 50
C2_HundredAndFifty ==
    "get_render_resolution" \in called =>
        /\ render.resolution_percentage = 100 =>
                res_out = <<render.resolution_x, render.resolution_y>>
        /\ render.resolution_percentage = 50 =>
                res_out = <<render.resolution_x \div 2, render.resolution_y \div 2>>

=============================================================================
